---------------------------- MODULE Spec2Model ----------------------------
(***************************************************************************)
(* Drag-and-drop board of pragmatic-dnd-playground.                        *)
(*                                                                         *)
(* The repository holds two versions of the App component:                 *)
(*   "part_000"  src/unnamed/part_000  (DropInfo with beforeId | "last",   *)
(*               tiny-invariant, tie-break in moveItem, hasDropIntent in   *)
(*               the column's canDrop)                                     *)
(*   "App"       src/src/App.tsx       (beforeId? | toEnd, early return,   *)
(*               no tie-break, column canDrop ignores hover intent)        *)
(* The variable impl selects the version; every operator below follows the *)
(* code of the version it is given.                                        *)
(*                                                                         *)
(* An Item is {id, label}; labels are never read by any handler and never  *)
(* change, so an item is modelled by its id.                               *)
(***************************************************************************)
EXTENDS Integers, Sequences, FiniteSets, TLC

VARIABLES
    impl,         \* which version of the component is running
    columns,      \* useState<ColumnsState>: container id -> sequence of item ids
    dragging,     \* item elements carrying the attribute data-dragging
    dropIntent,   \* item elements carrying the attribute data-drop-intent
    columnHover,  \* column elements carrying the attribute data-column-hover
    source,       \* the adapter's drag payload (getInitialData), NoDrag when idle
    current,      \* the adapter's current drop targets, innermost first
    calls,        \* the onMove calls of the latest drop (or direct call), in order
    prev,         \* the snapshot held before the latest drop (or direct call)
    mutated,      \* the containers of the snapshot handed to the first
                  \* moveItem of the latest drop (or direct call) whose
                  \* sequence reads differently after that call
    crashed,      \* an updater threw: the error left the component tree
    gestures      \* gestures ended so far

vars == <<impl, columns, dragging, dropIntent, columnHover, source, current,
          calls, prev, mutated, crashed, gestures>>

Impls == {"part_000", "App"}

(***************************************************************************)
(* Bounds                                                                  *)
(***************************************************************************)
MaxGestures == 2

MaxItems == 3

(***************************************************************************)
(* Array helpers (JavaScript indices are 0-based, TLA+ sequences 1-based)  *)
(***************************************************************************)
Range(s) == {s[k] : k \in 1..Len(s)}

Min(a, b) == IF a <= b THEN a ELSE b

\* Array.prototype.findIndex((i) => i.id === id): first index, or -1
findIndex(seq, id) ==
    IF \E k \in 1..Len(seq) : seq[k] = id
    THEN (CHOOSE k \in 1..Len(seq) :
              seq[k] = id /\ \A j \in 1..(k - 1) : seq[j] # id) - 1
    ELSE -1

spliceRemoveKeeps(seq, idx) == seq

spliceRemoveNext(seq, idx) ==
    SubSeq(seq, 1, idx + 1) \o SubSeq(seq, idx + 3, Len(seq))

\* seq.splice(idx, 1): the array without the element at index idx
spliceRemove(seq, idx) ==
    SubSeq(seq, 1, idx) \o SubSeq(seq, idx + 2, Len(seq))

spliceInsertAfter(seq, idx, item) ==
    LET at == Min(idx + 1, Len(seq))
    IN  SubSeq(seq, 1, at) \o <<item>> \o SubSeq(seq, at + 1, Len(seq))

\* seq.splice(idx, 0, item): item inserted at index idx (clamped to length)
spliceInsert(seq, idx, item) ==
    LET at == Min(idx, Len(seq))
    IN  SubSeq(seq, 1, at) \o <<item>> \o SubSeq(seq, at + 1, Len(seq))

pushFront(seq, item) == <<item>> \o seq

\* seq.push(item)
push(seq, item) == Append(seq, item)


(***************************************************************************)
(* moveItem                                                                *)
(*                                                                         *)
(* A request is [id, from, to, beforeId, toEnd].  part_000's DropInfo has  *)
(* no toEnd field (it is never read there) and spells the end sentinel as  *)
(* beforeId = "last"; App.tsx's request has either toEnd: true or an       *)
(* optional beforeId.  beforeId = "" stands for a beforeId that is absent  *)
(* or the empty string: both are falsy in `args.beforeId`.                 *)
(*                                                                         *)
(* The result is [threw, value]: threw when tiny-invariant throws, value   *)
(* the returned snapshot (the argument itself when nothing is returned).   *)
(* `next` is a fresh copy per key, so the argument is never changed;       *)
(* next[from] and next[to] are the same array exactly when from = to,      *)
(* which the chained EXCEPT below reproduces.                              *)
(***************************************************************************)
insertIndexStrict(from, to, idx, beforeIndex, length) ==
    IF beforeIndex = -1
    THEN length
    ELSE IF from = to /\ idx < beforeIndex
         THEN beforeIndex + 1
         ELSE beforeIndex

insertIndexAlwaysShift(from, to, idx, beforeIndex, length) ==
    IF beforeIndex = -1
    THEN length
    ELSE IF from = to THEN beforeIndex + 1 ELSE beforeIndex

\* part_000 lines 44-49
insertIndexPart000(from, to, idx, beforeIndex, length) ==
    IF beforeIndex = -1
    THEN length
    ELSE IF from = to /\ idx <= beforeIndex
         THEN beforeIndex + 1
         ELSE beforeIndex

\* App.tsx line 42
insertIndexApp(beforeIndex, length) ==
    IF beforeIndex = -1 THEN length ELSE beforeIndex

\* part_000 line 38: invariant(idx !== -1, ...) throws when the item is absent
notFoundPart000(state) == [threw |-> TRUE, value |-> state]

\* App.tsx line 35: if (idx === -1) return state
notFoundApp(state) == [threw |-> FALSE, value |-> state]

moveItemPart000(state, args) ==
    LET idx == findIndex(state[args.from], args.id)
    IN  IF idx = -1
        THEN notFoundPart000(state)
        ELSE LET removed == [state EXCEPT ![args.from] = spliceRemove(@, idx)]
                 to      == removed[args.to]
             IN  IF args.beforeId = "last"
                 THEN [threw |-> FALSE,
                       value |-> [removed EXCEPT ![args.to] = push(to, args.id)]]
                 ELSE LET beforeIndex == findIndex(to, args.beforeId)
                          insertIndex == insertIndexPart000(args.from, args.to,
                                             idx, beforeIndex, Len(to))
                      IN  [threw |-> FALSE,
                           value |-> [removed EXCEPT ![args.to] =
                                          spliceInsert(to, insertIndex, args.id)]]

moveItemApp(state, args) ==
    LET idx == findIndex(state[args.from], args.id)
    IN  IF idx = -1
        THEN notFoundApp(state)
        ELSE LET removed == [state EXCEPT ![args.from] = spliceRemove(@, idx)]
                 to      == removed[args.to]
             IN  IF args.toEnd
                 THEN [threw |-> FALSE,
                       value |-> [removed EXCEPT ![args.to] = push(to, args.id)]]
                 ELSE IF args.beforeId # ""
                 THEN LET beforeIndex == findIndex(to, args.beforeId)
                          insertIndex == insertIndexApp(beforeIndex, Len(to))
                      IN  [threw |-> FALSE,
                           value |-> [removed EXCEPT ![args.to] =
                                          spliceInsert(to, insertIndex, args.id)]]
                 ELSE [threw |-> FALSE, value |-> removed]

moveItemOnlyAffected(version, state, args) ==
    LET r == IF version = "part_000"
             THEN moveItemPart000(state, args)
             ELSE moveItemApp(state, args)
    IN  [r EXCEPT !.value = [k \in {args.from, args.to} |-> r.value[k]]]

moveItem(version, state, args) ==
    IF version = "part_000"
    THEN moveItemPart000(state, args)
    ELSE moveItemApp(state, args)

copiedKeysNone(state) == {}

\* Object.entries(state).map(([k, v]) => [k, [...v]]): the keys whose array in
\* `next` is a copy of the caller's array and not that array itself
copiedKeys(state) == DOMAIN state

\* The containers of the caller's snapshot whose sequence a call leaves
\* changed: the splices and the push change arrays of `next`, which reach the
\* caller's object only through an array that was not copied
inputChanged(version, state, args) ==
    {k \in DOMAIN state \ copiedKeys(state) :
         moveItem(version, state, args).value[k] # state[k]}

(***************************************************************************)
(* Orchestrator: onMove queues setColumns((prev) => moveItem(prev, args)). *)
(* React runs the queued updaters in order when it renders; an updater     *)
(* that throws makes the render fail, nothing is committed and, with no    *)
(* error boundary in the tree, the error leaves the component tree.        *)
(***************************************************************************)
RECURSIVE setColumns(_, _, _)
setColumns(version, state, queued) ==
    IF queued = <<>>
    THEN [threw |-> FALSE, value |-> state]
    ELSE LET r == moveItem(version, state, Head(queued).args)
         IN  IF r.threw
             THEN r
             ELSE setColumns(version, r.value, Tail(queued))

(***************************************************************************)
(* Initial layout of App (useState initialiser)                            *)
(***************************************************************************)
ContainerIds == {"a1", "a2", "a3", "b1", "b2", "b3", "c1", "c2", "c3"}

ItemIds == {"t1", "t2", "d1", "d2", "dn1"}

InitialColumns ==
    [c \in ContainerIds |->
        CASE c = "a1" -> <<"t1", "t2">>
          [] c = "a2" -> <<"d1">>
          [] c = "a3" -> <<"d2">>
          [] c = "b1" -> <<"dn1">>
          [] OTHER    -> <<>>]

(***************************************************************************)
(* Registrations.  Column renders one DraggableItem per entry of its       *)
(* items, each registered as a drag source and as a drop target with the   *)
(* column's id as containerId; the column's item-list element is a drop    *)
(* target of its own.  The state only changes on a drop, so within a       *)
(* gesture the registrations are those of `columns`.                       *)
(***************************************************************************)
NoDrag == [type |-> "none", itemId |-> "", fromContainerId |-> ""]

Outside == [type |-> "outside", itemId |-> "", containerId |-> ""]

\* DraggableItem draggable getInitialData
getInitialData(itemId, containerId) ==
    [type |-> "item", itemId |-> itemId, fromContainerId |-> containerId]

\* DraggableItem dropTargetForElements getData
itemTarget(itemId, containerId) ==
    [type |-> "item", itemId |-> itemId, containerId |-> containerId]

\* Column dropTargetForElements getData
columnTarget(containerId) ==
    [type |-> "column", itemId |-> "", containerId |-> containerId]

\* The targets rendered from a snapshot
itemTargets(state) ==
    UNION {{itemTarget(state[c][k], c) : k \in 1..Len(state[c])} :
               c \in DOMAIN state}

(***************************************************************************)
(* Handlers.  Each takes the set of elements that carry the handler's      *)
(* attribute and the element it is registered on.                          *)
(***************************************************************************)
draggableOnDragStart(attr, el) == attr \cup {el}

draggableOnDropKeeps(attr, el) == attr

draggableOnDrop(attr, el) == attr \ {el}

itemCanDrop(src) == src.type = "item"

itemOnDragEnter(attr, el, src) ==
    IF src.type # "item" THEN attr ELSE attr \cup {el}

itemOnDragLeave(attr, el) == attr \ {el}

itemOnDropKeeps(attr, el) == attr

\* first statement of the item target's onDrop
itemOnDrop(attr, el) == attr \ {el}

\* hasDropIntent(element.children): some child carries data-drop-intent
hasDropIntent(children, intent) ==
    \E k \in 1..Len(children) : children[k] \in intent

columnCanDropPart000(src, children, intent) ==
    src.type = "item" /\ ~hasDropIntent(children, intent)

columnCanDropApp(src) == src.type = "item"

columnOnDragEnter(attr, el) == attr \cup {el}

columnOnDragLeave(attr, el) == attr \ {el}

\* first statement of the column target's onDrop
columnOnDrop(attr, el) == attr \ {el}

\* the request the item target's onDrop hands to onMove
itemOnDropArgs(data, target) ==
    [id |-> data.itemId, from |-> data.fromContainerId,
     to |-> target.containerId, beforeId |-> target.itemId, toEnd |-> FALSE]

\* the request the column target's onDrop hands to onMove
columnOnDropArgs(version, data, target) ==
    IF version = "part_000"
    THEN [id |-> data.itemId, from |-> data.fromContainerId,
          to |-> target.containerId, beforeId |-> "last", toEnd |-> FALSE]
    ELSE [id |-> data.itemId, from |-> data.fromContainerId,
          to |-> target.containerId, beforeId |-> "", toEnd |-> TRUE]

(***************************************************************************)
(* The drag-and-drop adapter, as the handlers see it.  On every update     *)
(* (dragenter/dragover) it walks from the element under the pointer up     *)
(* through its ancestors and keeps each registered drop target whose       *)
(* canDrop accepts, innermost first; canDrop therefore reads the           *)
(* attributes as the previous update left them.  Only then it calls        *)
(* onDragLeave on the targets that left the list and onDragEnter on those  *)
(* that joined it.  A drop calls the source's onDrop and then onDrop of    *)
(* every current target, innermost first; a gesture that ends without a    *)
(* drop calls onDragLeave on the current targets and the source's onDrop.  *)
(***************************************************************************)
canDrop(version, target, src, intent, state) ==
    IF target.type = "item"
    THEN itemCanDrop(src)
    ELSE IF version = "part_000"
         THEN columnCanDropPart000(src, state[target.containerId], intent)
         ELSE columnCanDropApp(src)

\* the registered drop targets from the element under the pointer upwards
targetsAt(loc) ==
    IF loc.type = "item" THEN <<loc, columnTarget(loc.containerId)>>
    ELSE IF loc.type = "column" THEN <<loc>>
    ELSE <<>>

getDropTargetsOver(version, loc, src, intent, state) ==
    LET accepts(t) == canDrop(version, t, src, intent, state)
    IN  SelectSeq(targetsAt(loc), accepts)

onDragEnter(dom, target, src) ==
    IF target.type = "item"
    THEN [dom EXCEPT !.dropIntent = itemOnDragEnter(@, target.itemId, src)]
    ELSE [dom EXCEPT !.columnHover = columnOnDragEnter(@, target.containerId)]

onDragLeave(dom, target) ==
    IF target.type = "item"
    THEN [dom EXCEPT !.dropIntent = itemOnDragLeave(@, target.itemId)]
    ELSE [dom EXCEPT !.columnHover = columnOnDragLeave(@, target.containerId)]

onDrop(dom, target) ==
    IF target.type = "item"
    THEN [dom EXCEPT !.dropIntent = itemOnDrop(@, target.itemId)]
    ELSE [dom EXCEPT !.columnHover = columnOnDrop(@, target.containerId)]

RECURSIVE dispatch(_, _, _, _)
dispatch(event, dom, targets, src) ==
    IF targets = <<>>
    THEN dom
    ELSE LET t == Head(targets)
             d == CASE event = "enter" -> onDragEnter(dom, t, src)
                    [] event = "leave" -> onDragLeave(dom, t)
                    [] OTHER           -> onDrop(dom, t)
         IN  dispatch(event, d, Tail(targets), src)

\* the onMove calls of a drop on `targets`, in the order they are made
dropCalls(version, src, targets) ==
    IF src.type # "item"
    THEN <<>>
    ELSE [k \in 1..Len(targets) |->
            IF targets[k].type = "item"
            THEN [by |-> "item", args |-> itemOnDropArgs(src, targets[k])]
            ELSE [by |-> "column",
                  args |-> columnOnDropArgs(version, src, targets[k])]]

Attributes == [dropIntent |-> dropIntent, columnHover |-> columnHover]

Locations(state) ==
    itemTargets(state) \cup {columnTarget(c) : c \in DOMAIN state} \cup {Outside}

(***************************************************************************)
(* Gestures on the board                                                   *)
(***************************************************************************)
Init ==
    /\ impl \in Impls
    /\ columns = InitialColumns
    /\ dragging = {}
    /\ dropIntent = {}
    /\ columnHover = {}
    /\ source = NoDrag
    /\ current = <<>>
    /\ calls = <<>>
    /\ prev = InitialColumns
    /\ mutated = {}
    /\ crashed = FALSE
    /\ gestures = 0

\* A drag starts on an item.  The adapter's initial location holds the drop
\* targets under the source element; they are current without an onDragEnter.
DragStart(el) ==
    /\ source = NoDrag
    /\ ~crashed
    /\ gestures < MaxGestures
    /\ source' = getInitialData(el.itemId, el.containerId)
    /\ dragging' = draggableOnDragStart(dragging, el.itemId)
    /\ current' = getDropTargetsOver(impl, el, source', dropIntent, columns)
    /\ calls' = <<>>
    /\ prev' = columns
    /\ UNCHANGED <<impl, columns, dropIntent, columnHover, mutated, crashed,
                   gestures>>

\* The pointer is over loc: the drop targets are recomputed; the targets that
\* left get onDragLeave, then those that joined get onDragEnter
DragUpdate(loc) ==
    /\ source # NoDrag
    /\ current' = getDropTargetsOver(impl, loc, source, dropIntent, columns)
    /\ IF current' = current
       THEN UNCHANGED <<dropIntent, columnHover>>
       ELSE LET left    == SelectSeq(current, LAMBDA t : t \notin Range(current'))
                entered == SelectSeq(current', LAMBDA t : t \notin Range(current))
            IN  \E dom \in {dispatch("enter",
                                 dispatch("leave", Attributes, left, source),
                                 entered, source)} :
                    /\ dropIntent' = dom.dropIntent
                    /\ columnHover' = dom.columnHover
    /\ UNCHANGED <<impl, columns, dragging, source, calls, prev, mutated,
                   crashed, gestures>>

\* The user releases over the current drop targets
Drop ==
    /\ source # NoDrag
    /\ current # <<>>
    /\ \E dom \in {dispatch("drop", Attributes, current, source)} :
           /\ dropIntent' = dom.dropIntent
           /\ columnHover' = dom.columnHover
    /\ dragging' = draggableOnDrop(dragging, source.itemId)
    /\ calls' = dropCalls(impl, source, current)
    /\ prev' = columns
    /\ mutated' = IF calls' = <<>>
                  THEN mutated
                  ELSE inputChanged(impl, columns, calls'[1].args)
    /\ \E result \in {setColumns(impl, columns, calls')} :
           /\ columns' = IF result.threw THEN columns ELSE result.value
           /\ crashed' = result.threw
    /\ source' = NoDrag
    /\ current' = <<>>
    /\ gestures' = gestures + 1
    /\ UNCHANGED impl

\* The gesture ends without a drop (released over no target, or aborted)
Cancel ==
    /\ source # NoDrag
    /\ \E dom \in {dispatch("leave", Attributes, current, source)} :
           /\ dropIntent' = dom.dropIntent
           /\ columnHover' = dom.columnHover
    /\ dragging' = draggableOnDrop(dragging, source.itemId)
    /\ source' = NoDrag
    /\ current' = <<>>
    /\ calls' = <<>>
    /\ gestures' = gestures + 1
    /\ UNCHANGED <<impl, columns, prev, mutated, crashed>>

Next ==
    \/ \E el \in itemTargets(columns) : DragStart(el)
    \/ \E loc \in Locations(columns) : DragUpdate(loc)
    \/ Drop
    \/ Cancel

Spec == Init /\ [][Next]_vars

(***************************************************************************)
(* moveItem on its own: onMove called once with any request on any store   *)
(* holding MaxItems items in three containers.                             *)
(***************************************************************************)
ItemPool == <<"x", "y", "z", "w", "v">>

MoveItems == {ItemPool[k] : k \in 1..MaxItems}

MoveContainers == {"A", "B", "C"}

\* every store over MoveContainers that holds each item of MoveItems once
MoveLayouts ==
    LET orders == {p \in [1..MaxItems -> MoveItems] :
                      \A i, j \in 1..MaxItems : i # j => p[i] # p[j]}
        layout(place, order) ==
            [c \in MoveContainers |->
                SelectSeq(order, LAMBDA i : place[i] = c)]
    IN  {layout(place, order) :
            place \in [MoveItems -> MoveContainers], order \in orders}

\* "ghost" is an id no store holds; "" an absent or empty beforeId
MoveRequests ==
    [id : MoveItems \cup {"ghost"},
     from : MoveContainers,
     to : MoveContainers,
     beforeId : MoveItems \cup {"ghost", "", "last"},
     toEnd : BOOLEAN]

InitMove ==
    /\ impl \in Impls
    /\ columns \in MoveLayouts
    /\ dragging = {}
    /\ dropIntent = {}
    /\ columnHover = {}
    /\ source = NoDrag
    /\ current = <<>>
    /\ calls = <<>>
    /\ prev = columns
    /\ mutated = {}
    /\ crashed = FALSE
    /\ gestures = 0

\* const onMove = (args) => setColumns((prev) => moveItem(prev, args))
onMove(args) ==
    /\ calls = <<>>
    /\ ~crashed
    /\ calls' = <<[by |-> "caller", args |-> args]>>
    /\ prev' = columns
    /\ mutated' = inputChanged(impl, columns, args)
    /\ \E result \in {setColumns(impl, columns, calls')} :
           /\ columns' = IF result.threw THEN columns ELSE result.value
           /\ crashed' = result.threw
    /\ UNCHANGED <<impl, dragging, dropIntent, columnHover, source, current,
                   gestures>>

NextMove == \E args \in MoveRequests : onMove(args)

SpecMove == InitMove /\ [][NextMove]_vars

(***************************************************************************)
(* Vocabulary of the properties                                            *)
(***************************************************************************)
\* 1-based position of the first x in seq, 0 when absent
Pos(seq, x) ==
    IF x \in Range(seq)
    THEN CHOOSE k \in 1..Len(seq) : seq[k] = x /\ \A j \in 1..(k - 1) : seq[j] # x
    ELSE 0

Without(seq, x) == SelectSeq(seq, LAMBDA e : e # x)

\* the request of the latest call (meaningful when calls # <<>>)
Args == calls[1].args

\* the request names the end of the target as its anchor
IsEnd == IF impl = "part_000" THEN Args.beforeId = "last" ELSE Args.toEnd

\* the item of the request was in the source container when it was applied
ItemPresent == Args.id \in Range(prev[Args.from])

Store(a, b, c) == [k \in MoveContainers |->
                      CASE k = "A" -> a [] k = "B" -> b [] OTHER -> c]

Request(id, from, to, beforeId) ==
    /\ calls # <<>>
    /\ Args.id = id /\ Args.from = from /\ Args.to = to
    /\ IF beforeId = "last" THEN IsEnd ELSE ~IsEnd /\ Args.beforeId = beforeId

(***************************************************************************)
(* C1  Uniqueness: in every snapshot reachable from the initial layout by  *)
(* the requests the drop handlers emit, every item id is held by exactly   *)
(* one container, exactly once, and nothing else is held.                  *)
(***************************************************************************)
C1_Uniqueness ==
    /\ \A i \in ItemIds :
           \E c \in DOMAIN columns : \E k \in 1..Len(columns[c]) :
               /\ columns[c][k] = i
               /\ \A d \in DOMAIN columns : \A n \in 1..Len(columns[d]) :
                      columns[d][n] = i => (d = c /\ n = k)
    /\ \A c \in DOMAIN columns : \A k \in 1..Len(columns[c]) :
           columns[c][k] \in ItemIds

\* two gestures ended, the latest with an item and a column request applied
C1_Witness ==
    /\ gestures = 2
    /\ Len(calls) = 2
    /\ columns # prev
    /\ prev # InitialColumns

(***************************************************************************)
(* C2  Conflict resolution: a drop that lands inside an item's region      *)
(* (the item target's onDrop runs) causes exactly one call of onMove, and  *)
(* never a second one from the enclosing column's onDrop.                  *)
(***************************************************************************)
C2_OneMovePerItemDrop ==
    (calls # <<>> /\ calls[1].by = "item") => Len(calls) = 1

(***************************************************************************)
(* C3  Same-container forward move: when from = to and the anchor lies     *)
(* after the moved item, the item ends up immediately before the anchor    *)
(* ({A:[x,y,z]}, x moved with anchor z, gives {A:[y,x,z]}).                *)
(***************************************************************************)
C3_ForwardMoveBeforeAnchor ==
    ( /\ calls # <<>>
      /\ ~IsEnd
      /\ Args.from = Args.to
      /\ ItemPresent
      /\ Pos(prev[Args.to], Args.beforeId) > Pos(prev[Args.from], Args.id) )
    => /\ ~crashed
       /\ Pos(columns[Args.to], Args.id) + 1
              = Pos(columns[Args.to], Args.beforeId)

(***************************************************************************)
(* C4  Cross-container insert-before: when from # to and the anchor is in  *)
(* the target, the item leaves the source sequence and stands immediately  *)
(* before the anchor in the target sequence, nothing else moving           *)
(* ({A:[x,y], B:[z]}, x moved from A to B before z, gives                  *)
(* {A:[y], B:[x,z]}).                                                      *)
(***************************************************************************)
C4_CrossContainerInsertBefore ==
    ( /\ calls # <<>>
      /\ ~IsEnd
      /\ Args.from # Args.to
      /\ ItemPresent
      /\ Args.beforeId \in Range(prev[Args.to]) )
    => /\ ~crashed
       /\ columns[Args.from] = Without(prev[Args.from], Args.id)
       /\ Without(columns[Args.to], Args.id) = prev[Args.to]
       /\ Pos(columns[Args.to], Args.id) + 1
              = Pos(columns[Args.to], Args.beforeId)

C4_Witness ==
    /\ prev = Store(<<"x", "y">>, <<"z">>, <<>>)
    /\ Request("x", "A", "B", "z")
    /\ columns = Store(<<"y">>, <<"x", "z">>, <<>>)

(***************************************************************************)
(* C5  Append-to-end: with the end sentinel as anchor the item leaves its  *)
(* place in the source and becomes the last element of the target, also    *)
(* when the target is empty and when source and target are the same        *)
(* ({A:[x,y], B:[]}, x moved from A to B, gives {A:[y], B:[x]}).           *)
(***************************************************************************)
C5_AppendToEnd ==
    (calls # <<>> /\ IsEnd /\ ItemPresent)
    => /\ ~crashed
       /\ columns[Args.to] = Append(Without(prev[Args.to], Args.id), Args.id)
       /\ Args.from # Args.to
              => columns[Args.from] = Without(prev[Args.from], Args.id)

\* the example, with the third item at rest in a third container
C5_Witness ==
    /\ prev = Store(<<"x", "y">>, <<>>, <<"z">>)
    /\ Request("x", "A", "B", "last")
    /\ columns = Store(<<"y">>, <<"x">>, <<"z">>)

(***************************************************************************)
(* C6  Same-container backward move: when from = to and the anchor lies    *)
(* before the moved item, the item ends up immediately before the anchor,  *)
(* the other items keeping their order ({A:[x,y,z]}, z moved before y,     *)
(* gives {A:[x,z,y]}).                                                     *)
(***************************************************************************)
C6_BackwardMoveBeforeAnchor ==
    ( /\ calls # <<>>
      /\ ~IsEnd
      /\ Args.from = Args.to
      /\ ItemPresent
      /\ Pos(prev[Args.to], Args.beforeId) > 0
      /\ Pos(prev[Args.to], Args.beforeId) < Pos(prev[Args.from], Args.id) )
    => /\ ~crashed
       /\ Without(columns[Args.to], Args.id) = Without(prev[Args.to], Args.id)
       /\ Pos(columns[Args.to], Args.id) + 1
              = Pos(columns[Args.to], Args.beforeId)

C6_Witness ==
    /\ prev = Store(<<"x", "y", "z">>, <<>>, <<>>)
    /\ Request("z", "A", "A", "y")
    /\ columns = Store(<<"x", "z", "y">>, <<>>, <<>>)

(***************************************************************************)
(* C7  Missing anchor degrades to append: when the item is in the source   *)
(* and the anchor id is not in the target sequence after the item's        *)
(* removal, the call does not fail and the item becomes the last element   *)
(* of the target.                                                          *)
(***************************************************************************)
C7_MissingAnchorAppends ==
    ( /\ calls # <<>>
      /\ ~IsEnd
      /\ ItemPresent
      /\ Args.beforeId \notin Range(Without(prev[Args.to], Args.id)) )
    => /\ ~crashed
       /\ columns[Args.to] = Append(Without(prev[Args.to], Args.id), Args.id)

(***************************************************************************)
(* C8  ItemNotFound is a silent no-op: when onMove gets a request whose    *)
(* item is not in the source container, the held snapshot afterwards       *)
(* equals the one before and no failure escapes.                           *)
(***************************************************************************)
C8_ItemNotFoundSilent ==
    (calls # <<>> /\ ~ItemPresent) => (columns = prev /\ ~crashed)

(***************************************************************************)
(* C9  Drag source cleanup: once a gesture has ended, by a drop or         *)
(* without one, no drag source carries data-dragging.                      *)
(***************************************************************************)
C9_DragSourceIdle == source = NoDrag => dragging = {}

\* a gesture that ended without a drop, after the source had been marked
C9_Witness ==
    /\ gestures > 0
    /\ source = NoDrag
    /\ calls = <<>>
    /\ dragging = {}

(***************************************************************************)
(* C10  Drop target cleanup: once a gesture has ended, by a drop or by     *)
(* cancellation, no item target carries data-drop-intent and no column     *)
(* carries data-column-hover.                                              *)
(***************************************************************************)
C10_DropTargetsIdle == source = NoDrag => (dropIntent = {} /\ columnHover = {})

\* part_000, a drop taken by an item target alone: its column had been
\* entered together with the first item hovered in it and then stopped
\* accepting once that item carried data-drop-intent
C10_Witness ==
    /\ impl = "part_000"
    /\ source = NoDrag
    /\ Len(calls) = 1
    /\ calls[1].by = "item"
    /\ dropIntent = {}
    /\ columnHover = {}

C12_AdjacentForwardMoves ==
    ( /\ calls # <<>>
      /\ ~IsEnd
      /\ ItemPresent
      /\ Args.from = Args.to
      /\ Pos(prev[Args.to], Args.beforeId) = Pos(prev[Args.from], Args.id) + 1 )
    => /\ ~crashed
       /\ Pos(columns[Args.to], Args.id) = Pos(prev[Args.from], Args.id) + 1

\* every request of `queued`, applied in order from `state`, finds its item in
\* its source container at the moment it is applied
RECURSIVE AllFound(_, _, _)
AllFound(version, state, queued) ==
    IF queued = <<>>
    THEN TRUE
    ELSE /\ Head(queued).args.id \in Range(state[Head(queued).args.from])
         /\ AllFound(version, moveItem(version, state, Head(queued).args).value,
                     Tail(queued))

(***************************************************************************)
(* C13  ItemNotFound is unreachable in single-user operation: over every   *)
(* sequence of gestures from the initial layout, every request that        *)
(* reaches moveItem names an item that is in its source container at the   *)
(* moment the request is applied, also when one drop delivers requests     *)
(* from more than one drop target.                                         *)
(***************************************************************************)
C13_ItemNotFoundUnreachable == AllFound(impl, prev, calls)

(***************************************************************************)
(* C14  Column acceptance predicate: whenever the drop targets under the   *)
(* pointer are looked up while an item of a column carries                 *)
(* data-drop-intent, that column is not among the targets that accept.     *)
(***************************************************************************)
C14_ColumnDefersToItemIntent ==
    [][\A c \in DOMAIN columns :
           columnTarget(c) \in Range(current')
               => ~\E k \in 1..Len(columns[c]) : columns[c][k] \in dropIntent]_vars

C16_FrameOfMove ==
    calls # <<>>
    => /\ DOMAIN columns = DOMAIN prev
       /\ \A k \in DOMAIN prev \ {Args.from, Args.to} : columns[k] = prev[k]

\* a move between A and B with an item in C
C16_Witness ==
    /\ prev = Store(<<"x">>, <<"y">>, <<"z">>)
    /\ Request("x", "A", "B", "y")
    /\ columns = Store(<<>>, <<"x", "y">>, <<"z">>)

(***************************************************************************)
(* C17  A move preserves the relative order of all items other than the    *)
(* moved one: for every request, the source and target sequences with the  *)
(* moved item removed are the same after the move as before it.            *)
(***************************************************************************)
C17_OthersKeepOrder ==
    calls # <<>>
    => \A k \in {Args.from, Args.to} \cap DOMAIN prev :
           Without(columns[k], Args.id) = Without(prev[k], Args.id)

\* y leaves the middle of A for its end: x and z keep their order
C17_Witness ==
    /\ prev = Store(<<"x", "y", "z">>, <<>>, <<>>)
    /\ Request("y", "A", "A", "last")
    /\ columns = Store(<<"x", "z", "y">>, <<>>, <<>>)


=============================================================================
